---- MODULE Spec2Model ----
(***************************************************************************)
(* RedisCache (src/main.ts): a typed, namespaced, TTL-bound cache over a   *)
(* redis client.  The store is modelled as a finite map from physical keys *)
(* to (text, remaining lifetime); keys are sequences of characters, texts  *)
(* are sequences of JSON tokens, values are JavaScript values.             *)
(***************************************************************************)
EXTENDS Integers, Sequences, FiniteSets, TLC

VARIABLES store, last, gen, ctor, handles, race

vars == <<store, last, gen, ctor, handles, race>>

(***************************************************************************)
(* Bounds of the model.                                                    *)
(***************************************************************************)
\* most keys the store holds at one time
MaxKeys == 2
\* most client handles the factory creates in one behaviour
MaxHandles == 4
\* most set calls that overlap in one behaviour
MaxSets == 3
\* the age up to which a completed write is followed (the longest ttl)
MaxAge == 2

(***************************************************************************)
(* JavaScript values.  An object has the properties name, age and extra;   *)
(* a property is "absent" or holds a primitive.                            *)
(***************************************************************************)
Prims == {"absent", "undefined", "null", "NaN", "30", "Ana", "1n"}

JSObject(n, a, e) == [kind |-> "object", name |-> n, age |-> a, extra |-> e]

JSNull == [kind |-> "null", name |-> "absent", age |-> "absent", extra |-> "absent"]

\* what a function returns by `return;` / `return undefined`
JSUndefined ==
    [kind |-> "undefined", name |-> "absent", age |-> "absent", extra |-> "absent"]

ValAna      == JSObject("Ana", "30", "absent")
ValUndef    == JSObject("Ana", "30", "undefined")
ValNaN      == JSObject("Ana", "30", "NaN")
ValNullX    == JSObject("Ana", "30", "null")
ValBadAge   == JSObject("Ana", "NaN", "absent")
ValBigInt   == JSObject("Ana", "30", "1n")

\* the values callers pass to set
SetValues == {ValAna, ValUndef, ValNullX, ValBadAge, ValBigInt, JSNull}

(***************************************************************************)
(* JSON codec: JSON.stringify and JSON.parse.  A text is a sequence of     *)
(* tokens; <<>> is the empty string.                                       *)
(***************************************************************************)
\* JSON.stringify throws a TypeError on a BigInt
StringifyThrows(v) ==
    v.kind = "object" /\ "1n" \in {v.name, v.age, v.extra}

\* one property of an object literal: properties holding undefined are
\* omitted, NaN is written as null
PropText(k, p) ==
    CASE p \in {"absent", "undefined"} -> <<>>
      [] p = "NaN"                     -> <<k, "null">>
      [] OTHER                         -> <<k, p>>

\* a codec that also omits the properties holding null
StringifyOmitsNull(v) ==
    IF v.kind = "null"
    THEN <<"null">>
    ELSE <<"{">> \o PropText("name", IF v.name = "null" THEN "absent" ELSE v.name)
                 \o PropText("age", IF v.age = "null" THEN "absent" ELSE v.age)
                 \o PropText("extra", IF v.extra = "null" THEN "absent" ELSE v.extra)
                 \o <<"}">>

Stringify(v) ==
    IF v.kind = "null"
    THEN <<"null">>
    ELSE <<"{">> \o PropText("name", v.name) \o PropText("age", v.age)
                 \o PropText("extra", v.extra) \o <<"}">>

PropNames == {"name", "age", "extra"}

\* the tokens between the braces, as (property, value) pairs
Body(t) == SubSeq(t, 2, Len(t) - 1)

WellFormed(t) ==
    \/ t = <<"null">>
    \/ /\ Len(t) >= 2
       /\ t[1] = "{"
       /\ t[Len(t)] = "}"
       /\ Len(Body(t)) % 2 = 0
       /\ \A i \in 1..Len(Body(t)) :
            IF i % 2 = 1
            THEN Body(t)[i] \in PropNames
            ELSE Body(t)[i] \in {"null", "30", "Ana"}

\* JSON.parse throws a SyntaxError on a malformed text
ParseThrows(t) == ~WellFormed(t)

\* the value of property k in the object text t (the last occurrence wins)
PropOf(t, k) ==
    LET b == Body(t)
        at == {i \in 1..Len(b) : i % 2 = 1 /\ b[i] = k}
    IN  IF at = {} THEN "absent"
        ELSE b[(CHOOSE i \in at : \A j \in at : j <= i) + 1]

Parse(t) ==
    IF t = <<"null">>
    THEN JSNull
    ELSE JSObject(PropOf(t, "name"), PropOf(t, "age"), PropOf(t, "extra"))

TextAna     == Stringify(ValAna)
TextNullX   == Stringify(ValNullX)
TextBadAge  == Stringify(ValBadAge)
TextNull    == <<"null">>
TextEmpty   == <<>>
TextBroken  == <<"{", "name">>

\* the payloads other clients of the store write
Texts == {TextAna, TextNullX, TextBadAge, TextNull, TextEmpty, TextBroken}

(***************************************************************************)
(* Compiled schema {name: string, age: integer}: additional properties are *)
(* allowed.                                                                *)
(***************************************************************************)
IsString(p)  == p \in {"Ana"}
IsInteger(p) == p \in {"30"}

Check(v) ==
    /\ v.kind = "object"
    /\ IsString(v.name)
    /\ IsInteger(v.age)

(***************************************************************************)
(* Cache instances on the one store.                                       *)
(***************************************************************************)
Caches == {
    [prefix |-> <<"a">>,      ttl |-> 2, scanCount |-> 1],
    [prefix |-> <<"a", "b">>, ttl |-> 1, scanCount |-> 2],
    [prefix |-> <<"b">>,      ttl |-> 1, scanCount |-> 2] }

Ids == {<<>>, <<"b">>}

\* a key without the prefix
KeyOfNoPrefix(c, id) == id

\* const key = this.prefix + id
KeyOf(c, id) == c.prefix \o id

Keys == {KeyOf(c, id) : c \in Caches, id \in Ids}

\* every id whose key can be in the store
Chars == {"a", "b"}

AllIds == UNION {[1..n -> Chars] : n \in 0..2}

(***************************************************************************)
(* The store as the redis client shows it.                                 *)
(***************************************************************************)
Present(st, key) == key \in DOMAIN st

\* client.get(key): the text, or null for a key the store does not hold
\* (null and the empty string are both falsy, see Falsy)
NoData == <<"(nil)">>

ClientGet(st, key) == IF Present(st, key) THEN st[key].text ELSE NoData

\* a test for the empty string alone
FalsyEmptyOnly(data) == data = <<>>

\* !data
Falsy(data) == data = NoData \/ data = <<>>

\* client.exists(key)
ClientExists(st, key) == IF Present(st, key) THEN 1 ELSE 0

\* client.set(key, val, {EX: ttl})
ClientSet(st, key, text, ttl) ==
    [k \in DOMAIN st \cup {key} |->
        IF k = key THEN [text |-> text, ttl |-> ttl] ELSE st[k]]

\* a deletion the store does not apply
ClientDelNothing(st, key) == st

\* client.del([key])
ClientDel(st, key) == [k \in DOMAIN st \ {key} |-> st[k]]

\* the prefix as a leading substring of key
StartsWith(key, prefix) ==
    /\ Len(key) >= Len(prefix)
    /\ SubSeq(key, 1, Len(prefix)) = prefix

\* MATCH pattern = prefix + "*" (prefixes hold no glob metacharacter)
Matching(st, c) == {k \in DOMAIN st : StartsWith(k, c.prefix)}

\* a substring taken one character early
StripShort(c, key) == SubSeq(key, Len(c.prefix), Len(key))

\* key.substring(len)
Strip(c, key) == SubSeq(key, Len(c.prefix) + 1, Len(key))

(***************************************************************************)
(* Outcomes of the operations: what a call returns or throws.              *)
(***************************************************************************)
Outcome(thrown, err, val, bool, num) ==
    [thrown |-> thrown, err |-> err, val |-> val, bool |-> bool, num |-> num]

Returns(val)    == Outcome(FALSE, "", val, FALSE, 0)
ReturnsBool(b)  == Outcome(FALSE, "", JSUndefined, b, 0)
ReturnsNum(n)   == Outcome(FALSE, "", JSUndefined, FALSE, n)
Throws(err)     == Outcome(TRUE, err, JSUndefined, FALSE, 0)

\* a get that returns the decoded value unchecked
GetOutcomeUnchecked(st, c, id, ok) ==
    LET key  == KeyOf(c, id)
        data == ClientGet(st, key)
    IN  IF ~ok THEN Throws("STORE")
        ELSE IF Falsy(data) THEN Returns(JSUndefined)
        ELSE IF ParseThrows(data) THEN Throws("DECODE")
        ELSE IF Parse(data) = JSNull THEN Returns(JSUndefined)
        ELSE Returns(Parse(data))

\* get(id); ok: the store request succeeds
GetOutcome(st, c, id, ok) ==
    LET key  == KeyOf(c, id)
        data == ClientGet(st, key)
    IN  IF ~ok THEN Throws("STORE")
        ELSE IF Falsy(data) THEN Returns(JSUndefined)
        ELSE IF ParseThrows(data) THEN Throws("DECODE")
        ELSE IF Parse(data) = JSNull THEN Returns(JSUndefined)
        ELSE IF ~Check(Parse(data)) THEN Throws("SCHEMA_CHECK")
        ELSE Returns(Parse(data))

\* set(id, value)
SetOutcome(c, id, v, ok) ==
    IF StringifyThrows(v) THEN Throws("ENCODE")
    ELSE IF ~ok THEN Throws("STORE")
    ELSE Returns(JSUndefined)

\* a set that writes only when the store does not hold the key (NX)
SetStoreIfAbsent(st, c, id, v, ok) ==
    IF SetOutcome(c, id, v, ok).thrown \/ Present(st, KeyOf(c, id))
    THEN st
    ELSE ClientSet(st, KeyOf(c, id), Stringify(v), c.ttl)

\* a set that leaves the expiry of an existing key as it is (KEEPTTL)
SetStoreKeepTtl(st, c, id, v, ok) ==
    IF SetOutcome(c, id, v, ok).thrown
    THEN st
    ELSE ClientSet(st, KeyOf(c, id), Stringify(v),
                   IF Present(st, KeyOf(c, id)) THEN st[KeyOf(c, id)].ttl
                   ELSE c.ttl)

\* await this.client.set(key, JSON.stringify(value), {EX: this.ttl})
SetStore(st, c, id, v, ok) ==
    IF SetOutcome(c, id, v, ok).thrown
    THEN st
    ELSE ClientSet(st, KeyOf(c, id), Stringify(v), c.ttl)

\* a has that reports only the keys whose payload decodes
HasOutcomeDecoding(st, c, id, ok) ==
    IF ~ok THEN Throws("STORE")
    ELSE ReturnsBool(/\ ClientExists(st, KeyOf(c, id)) = 1
                     /\ ~ParseThrows(ClientGet(st, KeyOf(c, id))))

\* has(id)
HasOutcome(st, c, id, ok) ==
    IF ~ok THEN Throws("STORE")
    ELSE ReturnsBool(ClientExists(st, KeyOf(c, id)) = 1)

\* delete(id)
DeleteOutcome(c, id, ok) ==
    IF ~ok THEN Throws("STORE") ELSE ReturnsBool(TRUE)

DeleteStore(st, c, id, ok) ==
    IF ok THEN ClientDel(st, KeyOf(c, id)) ELSE st

\* a size that counts every key of the store
SizeOutcomeWholeStore(st, c, ok) ==
    IF ~ok THEN Throws("STORE")
    ELSE ReturnsNum(Cardinality(DOMAIN st))

\* size()
SizeOutcome(st, c, ok) ==
    IF ~ok THEN Throws("STORE")
    ELSE ReturnsNum(Cardinality(Matching(st, c)))

(***************************************************************************)
(* The record of the call that ended last.                                 *)
(***************************************************************************)
NoCache == [prefix |-> <<>>, ttl |-> 0, scanCount |-> 0]

\* the call before wrote or deleted the entry of the same cache and id, and
\* returned
Follows(c, id) ==
    /\ last.op \in {"set", "delete"}
    /\ last.c = c
    /\ last.id = id
    /\ ~last.out.thrown

\* no entry
NoEntry == [text |-> NoData, ttl |-> 0]

\* after: the set or delete that this call follows at once ("none" without
\* one); given: the value that set was given; before: the entry a set found
\* under its key
Call(op, c, id, arg, ok, out) ==
    [op |-> op, c |-> c, id |-> id, arg |-> arg, ok |-> ok, out |-> out,
     after |-> IF Follows(c, id) THEN last.op ELSE "none",
     given |-> IF Follows(c, id) THEN last.arg ELSE JSUndefined,
     before |-> IF op = "set" /\ Present(store, KeyOf(c, id))
                THEN store[KeyOf(c, id)] ELSE NoEntry]

NoCall(op) ==
    [op |-> op, c |-> NoCache, id |-> <<>>, arg |-> JSUndefined, ok |-> TRUE,
     out |-> Returns(JSUndefined), after |-> "none", given |-> JSUndefined,
     before |-> NoEntry]

Fits(st) == Cardinality(DOMAIN st) <= MaxKeys

(***************************************************************************)
(* Enumerations: keys() and [Symbol.asyncIterator]() are generators over   *)
(* client.scanIterator.  seen: the keys the cursor has returned; buf: the  *)
(* keys of the batch not yet handed to the loop body; out: what the        *)
(* generator has yielded; log: the console.warn notices; quiet: the store  *)
(* has not changed since the enumeration began.                            *)
(***************************************************************************)
Idle ==
    [kind |-> "idle", c |-> NoCache, status |-> "done", seen |-> {},
     buf |-> <<>>, out |-> <<>>, log |-> <<>>, quiet |-> TRUE, err |-> ""]

Begin(kind, c) == [Idle EXCEPT !.kind = kind, !.c = c, !.status = "running"]

Running == gen.status = "running"

\* a write, delete or expiry since the enumeration began
Disturbed == IF gen.kind = "idle" THEN gen ELSE [gen EXCEPT !.quiet = FALSE]

\* last holds the call that ended last; of the calls made once an enumeration
\* has begun, those of get, has and size() are recorded
Record(call) ==
    last' = IF gen.kind = "idle" \/ call.op \in {"get", "has", "size"}
            THEN call ELSE NoCall("none")

Item(id, val) == [id |-> id, val |-> val]

Notice(msg, key) == [msg |-> msg, key |-> key]

\* the orders in which a batch of the keys in S can arrive
Batches(S, count) ==
    {b \in UNION {[1..n -> S] : n \in 1..count} :
        \A i, j \in DOMAIN b : i # j => b[i] # b[j]}

\* the cursor returns keys it has not returned yet; a scan that finds none
\* ends the enumeration
Unseen(st, g) == Matching(st, g.c) \ g.seen

\* for await (let key of this.client.scanIterator(...)): the next batch
ScanNext(g, batch) ==
    [g EXCEPT !.seen = @ \cup {batch[i] : i \in DOMAIN batch}, !.buf = batch]

\* a cursor that never reports its end
ScanEndNever(g) == g

\* the cursor is exhausted: the for await loop ends and the generator returns
ScanEnd(g) == [g EXCEPT !.status = "done"]

ScanThrows(g) == [g EXCEPT !.status = "thrown", !.err = "STORE"]

\* keys(): yield key.substring(len)
KeysBody(g) ==
    [g EXCEPT !.buf = Tail(@),
              !.out = Append(@, Item(Strip(g.c, Head(g.buf)), JSUndefined))]

\* [Symbol.asyncIterator](): the loop body for the key at the head of buf
EntriesBody(st, g, ok) ==
    LET key   == Head(g.buf)
        got   == GetOutcome(st, g.c, key, ok)
        value == got.val
    IN  IF got.thrown
        THEN [g EXCEPT !.status = "thrown", !.err = got.err]
        ELSE IF value = JSUndefined
        THEN [g EXCEPT !.buf = Tail(@),
                       !.log = Append(@, Notice("COULD_NOT_FIND", key))]
        ELSE IF ~Check(value)
        THEN [g EXCEPT !.buf = Tail(@),
                       !.log = Append(@, Notice("SCHEMA_CHECK", key))]
        ELSE [g EXCEPT !.buf = Tail(@),
                       !.out = Append(@, Item(Strip(g.c, key), value))]

(***************************************************************************)
(* Actions.                                                                *)
(***************************************************************************)
\* a get that deletes the entry it fails to decode or to validate
GetPurging(c, id, ok) ==
    /\ Record(Call("get", c, id, JSUndefined, ok, GetOutcome(store, c, id, ok)))
    /\ store' = IF GetOutcome(store, c, id, ok).err \in {"DECODE", "SCHEMA_CHECK"}
                THEN ClientDel(store, KeyOf(c, id)) ELSE store
    /\ UNCHANGED <<gen, ctor, handles, race>>

Get(c, id, ok) ==
    /\ Record(Call("get", c, id, JSUndefined, ok, GetOutcome(store, c, id, ok)))
    /\ UNCHANGED <<store, gen, ctor, handles, race>>

Set(c, id, v, ok) ==
    /\ Fits(SetStore(store, c, id, v, ok))
    /\ store' = SetStore(store, c, id, v, ok)
    /\ Record(Call("set", c, id, v, ok, SetOutcome(c, id, v, ok)))
    /\ gen' = IF store' = store THEN gen ELSE Disturbed
    /\ UNCHANGED <<ctor, handles, race>>

Has(c, id, ok) ==
    /\ Record(Call("has", c, id, JSUndefined, ok, HasOutcome(store, c, id, ok)))
    /\ UNCHANGED <<store, gen, ctor, handles, race>>

Delete(c, id, ok) ==
    /\ store' = DeleteStore(store, c, id, ok)
    /\ Record(Call("delete", c, id, JSUndefined, ok, DeleteOutcome(c, id, ok)))
    /\ gen' = IF store' = store THEN gen ELSE Disturbed
    /\ UNCHANGED <<ctor, handles, race>>

Size(c, ok) ==
    /\ Record(Call("size", c, <<>>, JSUndefined, ok, SizeOutcome(store, c, ok)))
    /\ UNCHANGED <<store, gen, ctor, handles, race>>

\* another client of the store writes a payload under a key
OtherClientWrite(key, text, ttl) ==
    /\ Fits(ClientSet(store, key, text, ttl))
    /\ store' = ClientSet(store, key, text, ttl)
    /\ Record(NoCall("write"))
    /\ gen' = IF store' = store THEN gen ELSE Disturbed
    /\ UNCHANGED <<ctor, handles, race>>

(***************************************************************************)
(* Overlapping set calls.  A set encodes its value, sends the write and    *)
(* awaits the answer; the store applies the writes it receives one at a    *)
(* time, in the order they reach it.  sent: the writes not yet applied;    *)
(* done: the calls that have ended, in the order they ended, with their    *)
(* outcome and the time since (age).                                       *)
(***************************************************************************)
NoRace == [calls |-> 0, sent |-> {}, done |-> <<>>]

Ended(r, ok) ==
    [n |-> r.n, c |-> r.c, id |-> r.id, v |-> r.v, ok |-> ok,
     out |-> SetOutcome(r.c, r.id, r.v, ok), age |-> 0]

\* one time unit passes for the calls that have ended
Aged(rc) ==
    [rc EXCEPT !.done =
        [i \in DOMAIN @ |->
            [@[i] EXCEPT !.age = IF @ < MaxAge THEN @ + 1 ELSE @]]]

\* set(id, v) up to its await: JSON.stringify(value), which may throw, then
\* the write is on its way
SetSend(c, id, v) ==
    /\ race.calls < MaxSets
    /\ LET r == [n |-> race.calls + 1, c |-> c, id |-> id, v |-> v]
       IN  race' = IF StringifyThrows(v)
                   THEN [race EXCEPT !.calls = @ + 1,
                                     !.done = Append(@, Ended(r, TRUE))]
                   ELSE [race EXCEPT !.calls = @ + 1, !.sent = @ \cup {r}]
    /\ UNCHANGED <<store, last, gen, ctor, handles>>

\* the store applies the write r (or the request fails) and the call ends
SetApply(r, ok) ==
    /\ r \in race.sent
    /\ Fits(SetStore(store, r.c, r.id, r.v, ok))
    /\ store' = SetStore(store, r.c, r.id, r.v, ok)
    /\ race' = [race EXCEPT !.sent = @ \ {r},
                            !.done = Append(@, Ended(r, ok))]
    /\ UNCHANGED <<last, gen, ctor, handles>>

\* one time unit passes: the store removes the keys whose lifetime ended
Expired(st) == {k \in DOMAIN st : st[k].ttl <= 1}

Tick ==
    /\ DOMAIN store # {}
    /\ store' = [k \in DOMAIN store \ Expired(store) |->
                    [store[k] EXCEPT !.ttl = @ - 1]]
    /\ Record(NoCall("tick"))
    /\ gen' = Disturbed
    /\ race' = Aged(race)
    /\ UNCHANGED <<ctor, handles>>

\* a fresh call of keys() or of the iterator starts a new cursor
StartKeys(c) ==
    /\ ~Running
    /\ gen' = Begin("keys", c)
    /\ Record(NoCall("none"))
    /\ UNCHANGED <<store, ctor, handles, race>>

StartEntries(c) ==
    /\ ~Running
    /\ gen' = Begin("entries", c)
    /\ Record(NoCall("none"))
    /\ UNCHANGED <<store, ctor, handles, race>>

Scan(ok) ==
    /\ Running
    /\ gen.buf = <<>>
    /\ IF ~ok THEN gen' = ScanThrows(gen)
       ELSE IF Unseen(store, gen) = {} THEN gen' = ScanEnd(gen)
       ELSE \E batch \in Batches(Unseen(store, gen), gen.c.scanCount) :
                gen' = ScanNext(gen, batch)
    /\ UNCHANGED <<store, last, ctor, handles, race>>

KeysStep ==
    /\ Running
    /\ gen.kind = "keys"
    /\ gen.buf # <<>>
    /\ gen' = KeysBody(gen)
    /\ UNCHANGED <<store, last, ctor, handles, race>>

EntriesStep(ok) ==
    /\ Running
    /\ gen.kind = "entries"
    /\ gen.buf # <<>>
    /\ gen' = EntriesBody(store, gen, ok)
    /\ UNCHANGED <<store, last, ctor, handles, race>>

(***************************************************************************)
(* Construction: RedisCache.new creates the client, then runs the          *)
(* constructor.  A ttl is a number n or NaN.                               *)
(***************************************************************************)
Num(n) == [nan |-> FALSE, n |-> n]
NaN    == [nan |-> TRUE, n |-> 0]

TtlInputs == {Num(0 - 5), Num(0), NaN, Num(1), Num(60)}

Prefixes == {c.prefix : c \in Caches}

\* opts.ttl <= 0 || Number.isNaN(opts.ttl)
UnexpectedTtl(ttl) == (~ttl.nan /\ ttl.n <= 0) \/ ttl.nan

NotCalled ==
    [pc |-> "idle", prefix |-> <<>>, ttl |-> Num(1), client |-> FALSE, err |-> ""]

\* static new: const client = createClient({...redisOpts})
NewCreateClient(prefix, ttl) ==
    /\ ctor.pc # "created"
    /\ handles < MaxHandles
    /\ handles' = handles + 1
    /\ ctor' = [pc |-> "created", prefix |-> prefix, ttl |-> ttl,
                client |-> TRUE, err |-> ""]
    /\ UNCHANGED <<store, last, gen, race>>

\* return new RedisCache<T>(opts, client)
Constructor(c) ==
    IF UnexpectedTtl(c.ttl)
    THEN [c EXCEPT !.pc = "thrown", !.err = "UNEXPECTED_TTL"]
    ELSE [c EXCEPT !.pc = "returned"]

NewConstruct ==
    /\ ctor.pc = "created"
    /\ ctor' = Constructor(ctor)
    /\ UNCHANGED <<store, last, gen, handles, race>>

Init ==
    /\ store = <<>>
    /\ last = NoCall("none")
    /\ gen = Idle
    /\ ctor = NotCalled
    /\ handles = 0
    /\ race = NoRace

Next ==
    \/ \E c \in Caches, id \in Ids, ok \in BOOLEAN : Get(c, id, ok)
    \/ \E c \in Caches, id \in Ids, v \in SetValues : Set(c, id, v, TRUE)
    \/ \E c \in Caches, id \in Ids : Set(c, id, ValAna, FALSE)
    \/ \E c \in Caches, id \in Ids, ok \in BOOLEAN : Has(c, id, ok)
    \/ \E c \in Caches, id \in Ids, ok \in BOOLEAN : Delete(c, id, ok)
    \/ \E c \in Caches, ok \in BOOLEAN : Size(c, ok)
    \/ \E key \in Keys, text \in Texts : OtherClientWrite(key, text, 1)
    \/ Tick

Spec == Init /\ [][Next]_vars

\* enumerations, while the caches and other clients change the store
NextScan ==
    \/ \E c \in Caches : StartKeys(c)
    \/ \E c \in Caches : StartEntries(c)
    \/ \E ok \in BOOLEAN : Scan(ok)
    \/ KeysStep
    \/ \E ok \in BOOLEAN : EntriesStep(ok)
    \/ \E c \in Caches, id \in Ids, v \in {ValAna, ValNullX} : Set(c, id, v, TRUE)
    \/ \E c \in Caches, id \in Ids : Delete(c, id, TRUE)
    \/ \E c \in Caches : ~Running /\ Size(c, TRUE)
    \/ \E key \in Keys, text \in {TextBadAge, TextBroken} :
            OtherClientWrite(key, text, 1)
    \/ Tick

\* the state after a first call of keys() or of the iterator
InitScan ==
    /\ store = <<>>
    /\ last = NoCall("none")
    /\ gen \in {Begin(kind, c) : kind \in {"keys", "entries"}, c \in Caches}
    /\ ctor = NotCalled
    /\ handles = 0
    /\ race = NoRace

SpecScan == InitScan /\ [][NextScan]_vars

\* the consumer of a running enumeration asks for the next element, and a
\* request the store answers lets the generator run to its next yield or end
Pull ==
    \/ Scan(TRUE)
    \/ KeysStep
    \/ EntriesStep(TRUE)

\* enumerations whose consumer keeps asking and whose store keeps answering
SpecScanFair == SpecScan /\ WF_vars(Pull)

\* construction through the factory
NextNew ==
    \/ \E prefix \in Prefixes, ttl \in TtlInputs : NewCreateClient(prefix, ttl)
    \/ NewConstruct

SpecNew == Init /\ [][NextNew]_vars

\* the caches that are read
ReadCaches == {c \in Caches : Len(c.prefix) = 1}

\* reads of every kind, over a store that the caches and other clients fill
\* and that expires
NextRead ==
    \/ \E c \in ReadCaches, id \in Ids, ok \in BOOLEAN : Get(c, id, ok)
    \/ \E c \in ReadCaches, id \in Ids, ok \in BOOLEAN : Has(c, id, ok)
    \/ \E c \in ReadCaches, ok \in BOOLEAN : Size(c, ok)
    \/ \E c \in ReadCaches : StartKeys(c)
    \/ \E c \in ReadCaches : StartEntries(c)
    \/ \E ok \in BOOLEAN : Scan(ok)
    \/ KeysStep
    \/ \E ok \in BOOLEAN : EntriesStep(ok)
    \/ \E c \in ReadCaches, id \in Ids, v \in {ValAna, ValBadAge} :
            Set(c, id, v, TRUE)
    \/ \E c \in ReadCaches : OtherClientWrite(KeyOf(c, <<>>), TextBroken, 1)
    \/ Tick

SpecRead == Init /\ [][NextRead]_vars

\* the values of the overlapping sets
RaceValues == {ValAna, ValNullX, ValBigInt}

\* the caches whose sets overlap
RaceCaches == {c \in Caches : c.prefix[1] = "a"}

\* set calls that overlap, while time passes
NextRace ==
    \/ \E c \in RaceCaches, id \in Ids, v \in RaceValues : SetSend(c, id, v)
    \/ \E r \in race.sent, ok \in BOOLEAN : SetApply(r, ok)
    \/ Tick

SpecRace == Init /\ [][NextRace]_vars

(***************************************************************************)
(* Properties.                                                             *)
(***************************************************************************)
\* get(id) was called at once after a set(id, given) that returned, and its
\* store request succeeded
GetAfterSet ==
    /\ last.op = "get"
    /\ last.after = "set"
    /\ last.ok

\* the value is JSON data: an object whose properties hold strings, finite
\* numbers or null (none holds undefined, NaN or a BigInt), or null
JsonData(v) ==
    /\ v.kind \in {"object", "null"}
    /\ {v.name, v.age, v.extra} \subseteq {"absent", "null", "30", "Ana"}

\* C1 as stated: for every id and every value v that satisfies the schema,
\* set(id, v) followed at once by get(id) returns a value equal to v.
RoundTrip ==
    (GetAfterSet /\ Check(last.given))
        => last.out = Returns(last.given)

\* C1 amended: for every id and every value v that satisfies the schema and
\* that is JSON data (no property holds undefined, NaN, a BigInt or another
\* value JSON does not represent), set(id, v) followed at once by get(id)
\* returns a value equal to v.
RoundTripExact ==
    (GetAfterSet /\ Check(last.given) /\ JsonData(last.given))
        => last.out = Returns(last.given)

\* a value with a null property came back from a get that followed its set
RoundTripExactWitness ==
    /\ GetAfterSet
    /\ last.given = ValNullX
    /\ last.out = Returns(ValNullX)

\* C2: whatever the store holds under a key, a value that get(id) returns
\* satisfies the compiled schema.
GetReturnsChecked ==
    (last.op = "get" /\ ~last.out.thrown /\ last.out.val # JSUndefined)
        => Check(last.out.val)

\* get returned a value while the store also holds a payload that fails the
\* schema check
GetReturnsCheckedWitness ==
    /\ last.op = "get"
    /\ ~last.out.thrown
    /\ last.out.val # JSUndefined
    /\ \E k \in DOMAIN store : store[k].text = TextBadAge

\* C9: get(id) on an id whose key the store does not hold (never set,
\* deleted or expired) returns undefined and raises nothing, as long as the
\* store request succeeds.
GetAbsent ==
    (last.op = "get" /\ last.ok /\ ~Present(store, KeyOf(last.c, last.id)))
        => last.out = Returns(JSUndefined)

\* get returned undefined for an id that was deleted just before
GetAbsentWitness ==
    /\ last.op = "get"
    /\ last.ok
    /\ last.after = "delete"
    /\ last.out = Returns(JSUndefined)

\* C10: delete(id) returns true whenever the store request succeeds, whether
\* or not the entry exists (so also when it follows a delete of the same
\* id), and after it has(id) is false and get(id) is absent.
DeleteIdempotent ==
    /\ (last.op = "delete" /\ last.ok)
         => /\ last.out = ReturnsBool(TRUE)
            /\ HasOutcome(store, last.c, last.id, TRUE) = ReturnsBool(FALSE)
            /\ GetOutcome(store, last.c, last.id, TRUE) = Returns(JSUndefined)
    /\ (last.op = "has" /\ last.ok /\ last.after = "delete")
         => last.out = ReturnsBool(FALSE)
    /\ (last.op = "get" /\ last.ok /\ last.after = "delete")
         => last.out = Returns(JSUndefined)

\* the second of two successive delete(id) calls returned true
DeleteIdempotentWitness ==
    /\ last.op = "delete"
    /\ last.after = "delete"
    /\ last.out = ReturnsBool(TRUE)


\* one prefix is a leading substring of the other
Nested(c1, c2) ==
    StartsWith(c1.prefix, c2.prefix) \/ StartsWith(c2.prefix, c1.prefix)

\* what the store shows through cache c: the outcome of get and has for
\* every id, the ids keys() has to yield, and what the iterator fetches for
\* each key of its scan
Observed(st, c) ==
    [get     |-> [id \in AllIds |-> GetOutcome(st, c, id, TRUE)],
     has     |-> [id \in AllIds |-> HasOutcome(st, c, id, TRUE)],
     keys    |-> {Strip(c, k) : k \in Matching(st, c)},
     entries |-> [k \in Matching(st, c) |-> GetOutcome(st, c, k, TRUE)]]

\* this step is a set or delete that returned and changed the store
Written ==
    /\ last'.op \in {"set", "delete"}
    /\ ~last'.out.thrown
    /\ store' # store

EnumerationOver(kind) ==
    /\ gen.kind = kind
    /\ gen.status = "done"
    /\ gen.quiet

\* the payload of key k decodes to a value that satisfies the schema
ValidAt(st, k) ==
    /\ ~Falsy(st[k].text)
    /\ ~ParseThrows(st[k].text)
    /\ Check(Parse(st[k].text))

Yielded == {gen.out[i] : i \in DOMAIN gen.out}

\* C4: in a quiescent store where the ids under the prefix hold schema-valid
\* values, iteration yields exactly one pair (id, v) per matching key, v being
\* the value stored under that same key prefix + id.
IterationFetchesScannedKey ==
    (EnumerationOver("entries") /\ \A k \in Matching(store, gen.c) : ValidAt(store, k))
        => /\ Yielded = {Item(Strip(gen.c, k), Parse(store[k].text)) :
                            k \in Matching(store, gen.c)}
           /\ Len(gen.out) = Cardinality(Matching(store, gen.c))

\* C5: iteration skips an entry whose payload fails to decode or fails the
\* schema check and raises nothing: it ends by throwing only when a store
\* request failed.
IterationSkipsBadEntries ==
    (gen.kind = "entries" /\ gen.status = "thrown") => gen.err = "STORE"

NoHandleOnInvalidTtl ==
    /\ (ctor.pc \in {"returned", "thrown"})
         => (ctor.pc = "thrown" <=> ctor.ttl \in {Num(0 - 5), Num(0), NaN})
    /\ ctor.pc = "thrown"
         => (ctor.err = "UNEXPECTED_TTL" /\ ~ctor.client)

\* the payload under the key of the last call
Payload == ClientGet(store, KeyOf(last.c, last.id))

\* the store holds a payload under the key that JSON.parse decodes
Decodable ==
    /\ Present(store, KeyOf(last.c, last.id))
    /\ ~ParseThrows(Payload)

\* C11: for every stored payload that decodes but does not satisfy the
\* schema, get(id) throws SCHEMA_CHECK: it neither returns a value nor
\* reports the entry absent.
SchemaViolationRaised ==
    (last.op = "get" /\ last.ok /\ Decodable /\ ~Check(Parse(Payload)))
        => last.out = Throws("SCHEMA_CHECK")

\* C12: every set(id, v) that succeeds leaves under prefix + id the encoding
\* of v with the full ttl of the cache as remaining lifetime, whatever value
\* and remaining lifetime the entry had before; the entry is readable from
\* then on for that ttl.
SetOverwrites ==
    (last.op = "set" /\ ~last.out.thrown)
        => /\ Present(store, KeyOf(last.c, last.id))
           /\ store[KeyOf(last.c, last.id)] =
                [text |-> Stringify(last.arg), ttl |-> last.c.ttl]
           /\ \A k \in DOMAIN store : store[k].ttl >= 1

\* a set through the cache of ttl 2 wrote over an entry that held another
\* payload and had 1 unit of lifetime left
SetOverwritesWitness ==
    /\ last.op = "set"
    /\ ~last.out.thrown
    /\ last.c.ttl = 2
    /\ last.before.ttl = 1
    /\ last.before.text # Stringify(last.arg)
    /\ store[KeyOf(last.c, last.id)].ttl = 2

\* C13: a get(id) whose store request fails throws; get never returns
\* undefined when the request failed, so a get that returns undefined was
\* answered by the store that the key holds no payload (no key, or an empty
\* text).
GetFailureSurfaced ==
    last.op = "get"
        => /\ ~last.ok => (last.out.thrown /\ last.out.err = "STORE")
           /\ last.out = Returns(JSUndefined) => (last.ok /\ Falsy(Payload))

\* C16: has(id) returns true iff the store holds the key prefix + id at that
\* moment, whatever the payload (also when it is undecodable or fails the
\* schema), and so false after a delete or an expiry.
HasIffPresent ==
    /\ (last.op = "has" /\ last.ok)
         => last.out = ReturnsBool(Present(store, KeyOf(last.c, last.id)))
    /\ (last.op = "has" /\ last.ok /\ last.after = "delete")
         => last.out = ReturnsBool(FALSE)

\* has returned true for a key that holds a malformed payload
HasIffPresentWitness ==
    /\ last.op = "has"
    /\ last.out = ReturnsBool(TRUE)
    /\ Payload = TextBroken

\* C19: in a store at rest has and get agree on presence for every id and
\* every payload: has(id) is true exactly when get(id) does not return
\* undefined (it returns a value or throws); so an entry holding the empty
\* text or the encoded null is not present by has and absent by get.
PresenceAgrees ==
    \A c \in Caches, id \in Ids :
        HasOutcome(store, c, id, TRUE) = ReturnsBool(TRUE)
            <=> GetOutcome(store, c, id, TRUE) # Returns(JSUndefined)

\* C20: set validates nothing: set(id, v) with a value v that encodes and
\* does not satisfy the schema returns, and stores the encoding of v under
\* prefix + id with the ttl; then has(id) is true, keys() and size() count
\* the entry, and get(id) throws SCHEMA_CHECK.
SetUnvalidated ==
    (last.op = "set" /\ last.ok /\ ~StringifyThrows(last.arg) /\ ~Check(last.arg))
        => /\ last.out = Returns(JSUndefined)
           /\ Present(store, KeyOf(last.c, last.id))
           /\ store[KeyOf(last.c, last.id)] =
                [text |-> Stringify(last.arg), ttl |-> last.c.ttl]
           /\ HasOutcome(store, last.c, last.id, TRUE) = ReturnsBool(TRUE)
           /\ last.id \in {Strip(last.c, k) : k \in Matching(store, last.c)}
           /\ SizeOutcome(store, last.c, TRUE).num >= 1
           /\ GetOutcome(store, last.c, last.id, TRUE) = Throws("SCHEMA_CHECK")

\* the iteration is about to fetch the key at the head of its batch, and the
\* store holds that key no more (it was deleted or it expired after the scan
\* returned it)
FetchOfVanished ==
    /\ Running
    /\ gen.kind = "entries"
    /\ gen.buf # <<>>
    /\ ~Present(store, Head(gen.buf))

\* C15: when an entry the scan of an iteration returned is deleted or expires
\* before its value is fetched, the iteration (its store request succeeding)
\* skips the entry with a COULD_NOT_FIND notice, raises nothing and goes on
\* with the remaining keys.
SkipsVanishedEntry ==
    [][(FetchOfVanished /\ store' = store /\ gen' # gen /\ gen'.err # "STORE")
          => gen' = [gen EXCEPT !.buf = Tail(@),
                                !.log = Append(@, Notice("COULD_NOT_FIND",
                                                         Head(gen.buf)))]]_vars

\* the calls that ended with a write applied to key k, by their place in done
AppliedOn(k) ==
    {i \in DOMAIN race.done :
        /\ KeyOf(race.done[i].c, race.done[i].id) = k
        /\ ~race.done[i].out.thrown}

\* the write the store applied last on key k
LastOn(k) == race.done[CHOOSE i \in AppliedOn(k) : \A j \in AppliedOn(k) : j <= i]

\* C14: set calls that overlap on an id each end without error (a call
\* throws only when its own value does not encode or its own store request
\* fails), and the entry then is exactly what the write the store applied
\* last on that key left: the encoding of its value with the full ttl
\* counted from that write (so absent once that ttl has passed).
LastWriteWins ==
    /\ \A i \in DOMAIN race.done :
          (race.done[i].ok /\ ~StringifyThrows(race.done[i].v))
              => race.done[i].out = Returns(JSUndefined)
    /\ \A k \in Keys :
          (AppliedOn(k) # {} /\ \A r \in race.sent : KeyOf(r.c, r.id) # k)
              => IF LastOn(k).age < LastOn(k).c.ttl
                 THEN /\ Present(store, k)
                      /\ store[k] = [text |-> Stringify(LastOn(k).v),
                                     ttl  |-> LastOn(k).c.ttl - LastOn(k).age]
                 ELSE ~Present(store, k)

\* two sets of different values on one id were in flight together, the store
\* applied the second call first, and both have ended without error
LastWriteWinsWitness ==
    /\ Len(race.done) = 2
    /\ race.sent = {}
    /\ race.done[1].n = 2
    /\ race.done[2].n = 1
    /\ race.done[1].c = race.done[2].c
    /\ race.done[1].id = race.done[2].id
    /\ race.done[1].v # race.done[2].v
    /\ ~race.done[1].out.thrown
    /\ ~race.done[2].out.thrown
    /\ store[KeyOf(race.done[2].c, race.done[2].id)].text =
          Stringify(race.done[2].v)

\* every key the scan has to return was handed to the loop body
Visited == gen.buf = <<>> /\ gen.seen = Matching(store, gen.c)

EnumerationStep == [gen' EXCEPT !.quiet = gen.quiet] # gen

\* C18: get, has, size(), keys() and iteration leave the store as it is: no
\* key is written or deleted and no remaining lifetime changes; a get that
\* fails to decode or to validate leaves the entry in the store.
ReadsLeaveStore ==
    [][(last'.op \in {"get", "has", "size"} \/ EnumerationStep)
          => store' = store]_vars

\* a get has just thrown on an entry of the cache of ttl 2 that has 1 unit of
\* lifetime left, and the entry is still there with that lifetime
ReadsLeaveStoreWitness ==
    /\ last.op = "get"
    /\ last.out.err \in {"DECODE", "SCHEMA_CHECK"}
    /\ last.c.ttl = 2
    /\ Present(store, KeyOf(last.c, last.id))
    /\ store[KeyOf(last.c, last.id)].ttl = 1

====
